---- MODULE Spec2Model ----
(***************************************************************************)
(* Model of src/modules/ftp/ftp_example.py: the MAVLink-FTP frame codec    *)
(* (class FTPMessage), receive_ftp_message and the module-level script     *)
(* that opens a remote file, reads it in chunks and terminates the         *)
(* session; and of src/modules/communications_log_to_kml.py, the           *)
(* conversion of a communications log to KML files.                        *)
(*                                                                         *)
(* Python values are records tagged with their type in the field py, so    *)
(* that isinstance tests, unbound names and None are all values the model  *)
(* can compare.  Python ints are TLA+ integers (unbounded, as in Python).  *)
(* A call that can raise returns a record [raised, val]: raised is the     *)
(* exception's class name, or "" when the call returned val.               *)
(***************************************************************************)
EXTENDS Integers, Sequences, FiniteSets, TLC

VARIABLES
    \* ---- the script (module-level code, lines 195-267) ----
    pc,                \* position of the interpreter in the script
    exc,               \* class name of the uncaught exception, "" if none
    seq_num,           \* global seq_num (line 26)
    ftp_payload,       \* global ftp_payload (line 203)
    read_done,         \* global read_done (line 216)
    response_payload,  \* global response_payload (line 216)
    file_data,         \* global file_data (line 226)
    offset,            \* global offset (line 227)
    file_size,         \* global file_size (line 228)
    response,          \* local response of receive_ftp_message (line 168)
    sent,              \* payloads handed to file_transfer_protocol_send
    stdout,            \* lines printed
    remote,            \* the remote peer: what it answers to each request
    \* ---- the codec exercised on its own (class FTPMessage) ----
    h_step,            \* last codec operation applied
    h_args,            \* arguments given to the constructor / to NakErrorCode
    h_msg,             \* result of the constructor FTPMessage(...)
    h_buf,             \* buffer given to from_bytes / returned by to_bytes
    h_dec,             \* result of from_bytes(h_buf) / of NakErrorCode(code)
    \* ---- convert_communication_log_to_kml (communications_log_to_kml.py) ----
    k_pc,              \* position in convert_communication_log_to_kml
    k_file,            \* the log file at log_file_path: None, or its text
    k_env,             \* what the calls into modules.common answer
    content,           \* local content (line 82)
    result,            \* local result (lines 85 and 91)
    k_saved,           \* arguments of the calls to named_locations_to_kml
    k_stdout,          \* lines printed
    k_ret              \* [raised, val] of the call, Unbound while it runs

vars == <<pc, exc, seq_num, ftp_payload, read_done, response_payload, file_data,
          offset, file_size, response, sent, stdout, remote, h_step, h_args, h_msg, h_buf, h_dec,
          k_pc, k_file, k_env, content, result, k_saved, k_stdout, k_ret>>

scriptVars == <<pc, exc, seq_num, ftp_payload, read_done, response_payload,
                file_data, offset, file_size, response, sent, stdout, remote>>

codecVars == <<h_step, h_args, h_msg, h_buf, h_dec>>

kmlVars == <<k_pc, k_file, k_env, content, result, k_saved, k_stdout, k_ret>>

(***************************************************************************)
(* Python values                                                           *)
(***************************************************************************)
Unbound == [py |-> "unbound"]

None == [py |-> "NoneType"]

True == [py |-> "bool", v |-> TRUE]

False == [py |-> "bool", v |-> FALSE]

Bytes(b) == [py |-> "bytes", b |-> b]

ByteArray(b) == [py |-> "bytearray", b |-> b]

Return(v) == [raised |-> "", val |-> v]

Raise(e) == [raised |-> e, val |-> None]

Min(a, b) == IF a <= b THEN a ELSE b

\* b[lo:hi] for 0 <= lo <= hi: a slice never raises, it is cut at len(b)
Slice(b, lo, hi) == SubSeq(b, lo + 1, Min(hi, Len(b)))

\* struct.unpack("<H", s)[0]
unpack_H(s) ==
    IF Len(s) # 2 THEN Raise("struct.error") ELSE Return(s[1] + 256 * s[2])

\* A Python int that may need more than 31 bits (a file offset, a file size)
\* is held as <<hi, lo>>: its value is hi * 65536 + lo, with 0 <= lo <= 65535.
Wide(hi, lo) == <<hi, lo>>

\* 0 <= n <= 0xFFFFFFFF
InU32(n) == 0 <= n[1] /\ n[1] <= 65535

\* struct.unpack("<I", s)[0]
unpack_I(s) ==
    IF Len(s) # 4 THEN Raise("struct.error")
    ELSE Return(Wide(s[3] + 256 * s[4], s[1] + 256 * s[2]))

\* struct.pack("<H", n) for 0 <= n <= 65535
pack_H(n) == <<n % 256, n \div 256>>

\* struct.pack("<I", n) for 0 <= n <= 0xFFFFFFFF
pack_I(n) == pack_H(n[2]) \o pack_H(n[1])

(***************************************************************************)
(* Constants of the script                                                 *)
(***************************************************************************)
CHUNK_SIZE == 239

MAX_PAYLOAD_SIZE == 239

\* bytearray(251) in to_bytes
FRAME_SIZE == 251

\* b"/@ROMFS/locations.txt"
FILE_PATH ==
    Bytes(<<47, 64, 82, 79, 77, 70, 83, 47, 108, 111, 99, 97, 116, 105, 111,
            110, 115, 46, 116, 120, 116>>)

(***************************************************************************)
(* class Opcode(enum.IntEnum) and class NakErrorCode(enum.IntEnum)         *)
(***************************************************************************)
OpcodeValues == (0 .. 15) \cup {128, 129}

OpcodeMember(v) == [py |-> "Opcode", v |-> v]

\* a plausible slip: an unknown value is coerced to Opcode.NONE
Opcode_coerce(x) ==
    IF x \in OpcodeValues THEN Return(OpcodeMember(x)) ELSE Return(OpcodeMember(0))

\* Opcode(x): the member with value x, ValueError when there is none
Opcode(x) ==
    IF x \in OpcodeValues THEN Return(OpcodeMember(x)) ELSE Raise("ValueError")

NONE == OpcodeMember(0)

TERMINATE_SESSION == OpcodeMember(1)

OPEN_FILE_RO == OpcodeMember(4)

READ_FILE == OpcodeMember(5)

ACK_RESPONSE == OpcodeMember(128)

NAK_RESPONSE == OpcodeMember(129)

NakErrorCodeValues == 0 .. 10

\* a plausible slip: an unknown code is mapped to NakErrorCode.NONE
NakErrorCode_default(x) ==
    IF x \in NakErrorCodeValues THEN Return([py |-> "NakErrorCode", v |-> x])
    ELSE Return([py |-> "NakErrorCode", v |-> 0])

\* NakErrorCode(x): the member with value x, ValueError when there is none
NakErrorCode(x) ==
    IF x \in NakErrorCodeValues THEN Return([py |-> "NakErrorCode", v |-> x])
    ELSE Raise("ValueError")

FAIL_ERRNO == [py |-> "NakErrorCode", v |-> 2]

EOF == [py |-> "NakErrorCode", v |-> 6]

FILE_NOT_FOUND == [py |-> "NakErrorCode", v |-> 10]

(***************************************************************************)
(* class FTPMessage                                                        *)
(***************************************************************************)
\* a plausible slip: the constructor without the payload-length check
FTPMessage_nolen(a_seq_num, session, opcode, size, req_opcode, a_offset, data) ==
    IF ~(0 <= a_seq_num /\ a_seq_num <= 65535) THEN Raise("ValueError")
    ELSE IF ~(0 <= session /\ session <= 255) THEN Raise("ValueError")
    ELSE IF opcode.py # "Opcode" THEN Raise("TypeError")
    ELSE IF ~(0 <= size /\ size <= 255) THEN Raise("ValueError")
    ELSE IF req_opcode.py # "Opcode" THEN Raise("TypeError")
    ELSE IF ~InU32(a_offset) THEN Raise("ValueError")
    ELSE IF data.py # "bytes" THEN Raise("TypeError")
    ELSE Return([py |-> "FTPMessage", seq_num |-> a_seq_num, session |-> session,
                 opcode |-> opcode, size |-> size, req_opcode |-> req_opcode,
                 offset |-> a_offset, data |-> data])

\* FTPMessage.__init__: the checks in the order of the code, then the fields
FTPMessage(a_seq_num, session, opcode, size, req_opcode, a_offset, data) ==
    IF ~(0 <= a_seq_num /\ a_seq_num <= 65535) THEN Raise("ValueError")
    ELSE IF ~(0 <= session /\ session <= 255) THEN Raise("ValueError")
    ELSE IF opcode.py # "Opcode" THEN Raise("TypeError")
    ELSE IF ~(0 <= size /\ size <= 255) THEN Raise("ValueError")
    ELSE IF req_opcode.py # "Opcode" THEN Raise("TypeError")
    ELSE IF ~InU32(a_offset) THEN Raise("ValueError")
    ELSE IF data.py # "bytes" THEN Raise("TypeError")
    ELSE IF Len(data.b) > MAX_PAYLOAD_SIZE THEN Raise("ValueError")
    ELSE Return([py |-> "FTPMessage", seq_num |-> a_seq_num, session |-> session,
                 opcode |-> opcode, size |-> size, req_opcode |-> req_opcode,
                 offset |-> a_offset, data |-> data])

\* FTPMessage.from_bytes: the reads in the order of the code.  Subscripting a
\* value that is neither bytes nor bytearray raises TypeError; an index past
\* the end raises IndexError; a slice is cut short and never raises; the
\* slice of a bytearray is a bytearray, the slice of bytes is bytes.
from_bytes(buf) ==
    IF buf.py \notin {"bytes", "bytearray"} THEN Raise("TypeError")
    ELSE
      LET b == buf.b
          r_seq == unpack_H(Slice(b, 0, 2))
          r_off == unpack_I(Slice(b, 8, 12))
      IN  IF r_seq.raised # "" THEN r_seq
          ELSE IF Len(b) <= 2 THEN Raise("IndexError")
          ELSE IF Len(b) <= 3 THEN Raise("IndexError")
          ELSE IF Opcode(b[4]).raised # "" THEN Opcode(b[4])
          ELSE IF Len(b) <= 4 THEN Raise("IndexError")
          ELSE IF Len(b) <= 5 THEN Raise("IndexError")
          ELSE IF Opcode(b[6]).raised # "" THEN Opcode(b[6])
          ELSE IF r_off.raised # "" THEN r_off
          ELSE FTPMessage(r_seq.val, b[3], Opcode(b[4]).val, b[5],
                          Opcode(b[6]).val, r_off.val,
                          [py |-> buf.py, b |-> Slice(b, 12, 12 + b[5])])

\* a plausible slip: the buffer built by concatenation, without the zero fill
to_bytes_nofill(self) ==
    ByteArray(pack_H(self.seq_num)
                \o <<self.session, self.opcode.v, self.size, self.req_opcode.v, 0, 0>>
                \o pack_I(self.offset) \o self.data.b)

\* FTPMessage.to_bytes: a zeroed bytearray(251) with the fields written over it
to_bytes(self) ==
    LET hdr == pack_H(self.seq_num)
                 \o <<self.session, self.opcode.v, self.size, self.req_opcode.v, 0, 0>>
                 \o pack_I(self.offset)
        n == Len(self.data.b)
    IN  ByteArray([i \in 1 .. FRAME_SIZE |->
                     IF i <= 12 THEN hdr[i]
                     ELSE IF i - 12 <= n THEN self.data.b[i - 12]
                     ELSE 0])

(***************************************************************************)
(* The codec on its own: the constructor, to_bytes and from_bytes applied  *)
(* to arguments and buffers drawn from bounded sets.                       *)
(***************************************************************************)
\* longest payload enumerated byte by byte
MaxData == 2

SampleBytes == {0, 6, 200}

SeqsUpTo(S, n) == UNION {[1 .. k -> S] : k \in 0 .. n}

Fill(n) == [i \in 1 .. n |-> i % 256]

SampleData ==
    {Bytes(s) : s \in SeqsUpTo(SampleBytes, MaxData)}
      \cup {Bytes(Fill(MAX_PAYLOAD_SIZE)), Bytes(Fill(MAX_PAYLOAD_SIZE + 1)),
            ByteArray(<<>>)}

SampleSeqNums == {0, 65535, 65536}

SampleSessions == {0, 3, 256}

SampleOpcodes == {READ_FILE, ACK_RESPONSE, [py |-> "int", v |-> 5]}

SampleReqOpcodes == {NONE, [py |-> "int", v |-> 0]}

SampleOffsets == {Wide(0, 0), Wide(0, 100), Wide(65535, 65535), Wide(65536, 0)}

SampleSizes(data) == {Len(data.b), CHUNK_SIZE, 255, 256}

RawHeader(s, session, op, size, req, off) ==
    pack_H(s) \o <<session, op, size, req, 0, 0>> \o pack_I(off)

RawFrames ==
    {RawHeader(s, 3, op, size, req, Wide(0, 0)) \o Fill(MAX_PAYLOAD_SIZE) :
        s \in {1, 65535}, op \in {5, 128, 129, 200},
        size \in {0, 1, 4, 239, 255}, req \in {0, 5, 77}}

RawLens == {0, 1, 2, 3, 5, 10, 11, 16, FRAME_SIZE} \cup {12 + n : n \in 0 .. MaxData}

RawBuffers ==
    {[py |-> k, b |-> Slice(f, 0, n)] :
        f \in RawFrames, n \in RawLens, k \in {"bytes", "bytearray"}}

CodecIdle ==
    /\ h_step = "idle"
    /\ h_args = None
    /\ h_msg = None
    /\ h_buf = None
    /\ h_dec = None

\* FTPMessage(seq_num, session, opcode, size, req_opcode, offset, data)
Construct ==
    /\ h_step = "idle"
    /\ \E s \in SampleSeqNums, session \in SampleSessions, opcode \in SampleOpcodes,
          req_opcode \in SampleReqOpcodes, off \in SampleOffsets, data \in SampleData :
         \E size \in SampleSizes(data) :
            /\ h_args' = [seq_num |-> s, session |-> session, opcode |-> opcode,
                          size |-> size, req_opcode |-> req_opcode, offset |-> off,
                          data |-> data]
            /\ h_msg' = FTPMessage(s, session, opcode, size, req_opcode, off, data)
    /\ h_step' = "constructed"
    /\ UNCHANGED <<h_buf, h_dec>>
    /\ UNCHANGED scriptVars
    /\ UNCHANGED kmlVars

\* h_msg.to_bytes()
Encode ==
    /\ h_step = "constructed"
    /\ h_msg.raised = ""
    /\ h_buf' = to_bytes(h_msg.val)
    /\ h_step' = "encoded"
    /\ UNCHANGED <<h_args, h_msg, h_dec>>
    /\ UNCHANGED scriptVars
    /\ UNCHANGED kmlVars

\* a buffer arrives from outside
Receive ==
    /\ h_step = "idle"
    /\ h_buf' \in RawBuffers
    /\ h_step' = "raw"
    /\ UNCHANGED <<h_args, h_msg, h_dec>>
    /\ UNCHANGED scriptVars
    /\ UNCHANGED kmlVars

\* FTPMessage.from_bytes(h_buf)
Decode ==
    /\ h_step \in {"encoded", "raw"}
    /\ h_dec' = [of |-> h_step, res |-> from_bytes(h_buf)]
    /\ h_step' = "decoded"
    /\ UNCHANGED <<h_args, h_msg, h_buf>>
    /\ UNCHANGED scriptVars
    /\ UNCHANGED kmlVars

SampleCodes == (0 .. 12) \cup {42, 255}

\* NakErrorCode(code): the classification of line 184, for byte 0 of a NAK's
\* payload
Classify ==
    /\ h_step = "idle"
    /\ \E code \in SampleCodes :
          /\ h_args' = [code |-> code]
          /\ h_dec' = [of |-> "code", res |-> NakErrorCode(code)]
    /\ h_step' = "classified"
    /\ UNCHANGED <<h_msg, h_buf>>
    /\ UNCHANGED scriptVars
    /\ UNCHANGED kmlVars

(***************************************************************************)
(* receive_ftp_message(seq_num, timeout).  resp is what vehicle.recv_match *)
(* returned within the timeout (None, or the message); g_response_payload  *)
(* is the value of the module's global response_payload at the time of the *)
(* call: line 177 decodes that global, the function has no local of the    *)
(* name and never reads resp.payload.  The result carries the lines        *)
(* printed before the return or the raise.                                 *)
(***************************************************************************)
Result(raised, val, out) == [raised |-> raised, val |-> val, out |-> out]

receive_ftp_message(a_seq_num, resp, g_response_payload) ==
    IF resp = None
    THEN Result("", <<False, None>>, <<"ERROR: NO RESPONSE RECEIVED">>)
    ELSE IF g_response_payload = Unbound THEN Result("NameError", None, <<>>)
    ELSE IF from_bytes(g_response_payload).raised # ""
    THEN Result(from_bytes(g_response_payload).raised, None, <<>>)
    ELSE
      LET return_payload == from_bytes(g_response_payload).val
          nak == <<"ERROR CODE: {error}, ERROR MESSAGE: {error.name}">>
      IN  IF return_payload.seq_num # a_seq_num + 1
          THEN Result("", <<False, return_payload>>, <<"ERROR: Sequence number mismatch">>)
          ELSE IF return_payload.opcode # ACK_RESPONSE
          THEN IF Len(return_payload.data.b) = 0 THEN Result("IndexError", None, <<>>)
               ELSE IF NakErrorCode(return_payload.data.b[1]).raised # ""
               THEN Result("ValueError", None, <<>>)
               ELSE IF NakErrorCode(return_payload.data.b[1]).val = FAIL_ERRNO
               \* line 189: FTPMessage has no attribute payload
               THEN Result("AttributeError", None, nak)
               ELSE Result("", <<False, return_payload>>, nak)
          ELSE Result("", <<True, return_payload>>, <<>>)

(***************************************************************************)
(* The remote peer.  It holds, for the open request and for each read      *)
(* request in turn, what it answers: nothing within the timeout, or a      *)
(* frame whose sequence is the request's plus seq_delta.  The session id   *)
(* it assigns is 3.  The link to it may also break, and recv_match raise.  *)
(***************************************************************************)
\* longest list of answers to read requests the remote holds
MaxReads == 2

NoReply == [kind |-> "none"]

Reply(seq_delta, session, opcode, req_opcode, data) ==
    [kind |-> "frame", seq_delta |-> seq_delta, session |-> session,
     opcode |-> opcode, size |-> Len(data), req_opcode |-> req_opcode, data |-> data]

\* recv_match itself raises (the link broke while waiting)
TransportError == [kind |-> "raise"]

OpenReplies ==
    {NoReply, TransportError}
      \cup {Reply(d, 3, 128, 4, pack_I(Wide(0, n))) : d \in {0, 1, 2}, n \in {0, 1, 2, 100}}
      \cup {Reply(1, 0, 129, 4, <<c>>) : c \in {1, 6, 10, 42}}
      \cup {Reply(1, 0, 129, 4, <<2, 13>>), Reply(1, 3, 128, 4, <<>>),
            Reply(1, 3, 200, 4, pack_I(Wide(0, 1)))}

ReadReplies ==
    {NoReply}
      \cup {Reply(1, 3, 128, 5, data) : data \in {<<>>, <<7>>, <<8, 9>>}}
      \cup {Reply(1, 3, 129, 5, <<c>>) : c \in {4, 6}}
      \cup {Reply(0, 3, 128, 5, <<7>>)}

\* the 251-byte payload of the FILE_TRANSFER_PROTOCOL message the remote
\* sends in answer to a request of sequence req_seq
RemoteFrame(reply, req_seq) ==
    LET hdr == RawHeader((req_seq + reply.seq_delta) % 65536, reply.session,
                         reply.opcode, reply.size, reply.req_opcode, Wide(0, 0))
    IN  [i \in 1 .. FRAME_SIZE |->
            IF i <= 12 THEN hdr[i]
            ELSE IF i - 12 <= Len(reply.data) THEN reply.data[i - 12]
            ELSE 0]

\* vehicle.recv_match(type="FILE_TRANSFER_PROTOCOL", blocking=True, timeout=...)
recv_match(reply, req_seq) ==
    IF reply.kind = "none" THEN None
    ELSE [py |-> "MAVLink_file_transfer_protocol_message",
          payload |-> [py |-> "list", b |-> RemoteFrame(reply, req_seq)]]

(***************************************************************************)
(* src/modules/communications_log_to_kml.py.  A log is held as the list of *)
(* its lines (the text between newlines); a line is the timestamp of its   *)
(* first 8 characters and, in order, the places where one of the two       *)
(* patterns "latitude: <float>" and "longitude: <float>" matches, each     *)
(* with the text of the float.                                             *)
(***************************************************************************)
Tuple(t) == [py |-> "tuple", v |-> t]

\* bool(x) for the values met here: a tuple is true unless it is empty
Truthy(x) ==
    CASE x.py = "bool" -> x.v
      [] x.py = "tuple" -> Len(x.v) > 0
      [] x.py = "NoneType" -> FALSE

Line(time, found) == [time |-> time, found |-> found]

Match(key, text) == [key |-> key, text |-> text]

\* a str, as the list of its lines
Str(lines) == [py |-> "str", lines |-> lines]

\* a line of white space only (the empty line included)
Blank == Line("", <<>>)

RECURSIVE lstrip(_)
lstrip(lines) ==
    IF lines = <<>> THEN <<>>
    ELSE IF Head(lines) = Blank THEN lstrip(Tail(lines))
    ELSE lines

RECURSIVE rstrip(_)
rstrip(lines) ==
    IF lines = <<>> THEN <<>>
    ELSE IF lines[Len(lines)] = Blank THEN rstrip(SubSeq(lines, 1, Len(lines) - 1))
    ELSE lines

\* log_file.read().strip() followed by split("\n"): the blank lines at both
\* ends go; the empty string splits into one empty line
strip(lines) ==
    IF rstrip(lstrip(lines)) = <<>> THEN <<Blank>> ELSE rstrip(lstrip(lines))

\* re.findall(key + r": (-?\d+\.\d+)", line): the matched floats, in order
findall(key, line) ==
    LET IsKey(m) == m.key = key
        hits == SelectSeq(line.found, IsKey)
    IN  [i \in 1 .. Len(hits) |-> hits[i].text]

\* float(text), in hundredths, for the texts the sample lines hold
float(text) ==
    [py |-> "float",
     e2 |-> CASE text = "43.47" -> 4347
              [] text = "91.00" -> 9100
              [] text = "-80.54" -> 0 - 8054]

\* location_global.NamedLocationGlobal.create(name, latitude, longitude):
\* code of modules.common; env names the latitudes it refuses
create(name, latitude, longitude, env) ==
    IF latitude \in env.refused THEN <<False, None>>
    ELSE <<True, [py |-> "NamedLocationGlobal", name |-> name,
                  latitude |-> latitude, longitude |-> longitude]>>

\* lines 50-58 for one line of the log: the locations of the line, or the
\* index at which create failed
LineLocations(line, env) ==
    LET latitudes == [i \in 1 .. Len(findall("latitude", line)) |->
                        float(findall("latitude", line)[i])]
        longitudes == [i \in 1 .. Len(findall("longitude", line)) |->
                         float(findall("longitude", line)[i])]
        made == [i \in 1 .. Len(latitudes) |->
                    create(<<line.time, i - 1>>, latitudes[i], longitudes[i], env)]
        bad == {i \in 1 .. Len(made) : made[i][1] = False}
    IN  [failed |-> bad # {},
         locations |-> [i \in 1 .. Len(made) |-> made[i][2]]]

RECURSIVE ScanLines(_, _, _)
\* lines 29-58: the loop over the lines; it stops at the first line whose
\* counts differ or on which a location cannot be created
ScanLines(lines, locations, env) ==
    IF lines = <<>> THEN [failed |-> FALSE, out |-> <<>>, locations |-> locations]
    ELSE IF Len(findall("latitude", Head(lines))) # Len(findall("longitude", Head(lines)))
    THEN [failed |-> TRUE,
          out |-> <<"Number of latitudes and longitudes found are different.",
                    "# of altitudes: {len(latitudes)}, # of longitudes: {len(longitudes)}">>,
          locations |-> locations]
    ELSE IF LineLocations(Head(lines), env).failed
    THEN [failed |-> TRUE,
          out |-> <<"Failed to create location for time {time} and index {i}.">>,
          locations |-> locations]
    ELSE ScanLines(Tail(lines), locations \o LineLocations(Head(lines), env).locations, env)

\* _convert_communication_log_to_kml(log_file, document_name_prefix,
\* save_directory).  A failure inside the loop returns the tuple
\* (False, None); otherwise the function returns the bool that
\* named_locations_to_kml (code of modules.common) gave, save_ok here.
_convert_communication_log_to_kml(log_file, document_name_prefix, env, save_ok) ==
    LET scan == ScanLines(log_file, <<>>, env)
    IN  IF scan.failed
        THEN [val |-> Tuple(<<False, None>>), out |-> scan.out, saved |-> <<>>]
        ELSE [val |-> IF save_ok THEN True ELSE False,
              out |-> <<>>,
              saved |-> <<[locations |-> scan.locations,
                           prefix |-> document_name_prefix, ok |-> save_ok]>>]

\* longest log enumerated line by line
MaxLines == 2

SampleLines ==
    {Blank,
     Line("12:00:00", <<>>),
     Line("12:00:01", <<Match("latitude", "43.47"), Match("longitude", "-80.54")>>),
     Line("12:00:02", <<Match("latitude", "43.47")>>),
     Line("12:00:03", <<Match("latitude", "91.00"), Match("longitude", "-80.54")>>),
     Line("12:00:04", <<Match("latitude", "43.47"), Match("longitude", "-80.54"),
                        Match("latitude", "43.47"), Match("longitude", "-80.54")>>)}

\* the file at log_file_path: absent, or its lines (the empty file is one
\* empty line)
SampleFiles == {None} \cup {Str(ls) : ls \in SeqsUpTo(SampleLines, MaxLines) \ {<<>>}}

\* what modules.common answers: the latitudes NamedLocationGlobal.create
\* refuses, and whether each of the two calls to named_locations_to_kml
\* manages to save its file
SampleEnvs == [refused : {{}, {float("91.00")}}, save : [1 .. 2 -> BOOLEAN]]

\* the document_name_prefix the caller gives (line 108)
Prefix == <<"output">>

KmlIdle ==
    /\ k_pc = "idle"
    /\ k_file = None
    /\ k_env = None
    /\ content = Unbound
    /\ result = Unbound
    /\ k_saved = <<>>
    /\ k_stdout = <<>>
    /\ k_ret = Unbound

\* Lines 81-82: open the log and read it.  open() raises when the file is
\* absent, and nothing catches it.
ReadLog ==
    /\ k_pc = "open"
    /\ IF k_file = None
       THEN /\ k_ret' = Raise("FileNotFoundError")
            /\ k_pc' = "done"
            /\ UNCHANGED content
       ELSE /\ content' = Str(strip(k_file.lines))
            /\ k_pc' = "whole"
            /\ UNCHANGED k_ret
    /\ UNCHANGED <<k_file, k_env, result, k_saved, k_stdout>>
    /\ UNCHANGED scriptVars
    /\ UNCHANGED codecVars

\* Lines 85-88: convert the entire log
ConvertWhole ==
    /\ k_pc = "whole"
    /\ LET r == _convert_communication_log_to_kml(content.lines, Prefix, k_env, k_env.save[1])
       IN  /\ result' = r.val
           /\ k_saved' = k_saved \o r.saved
           /\ IF ~Truthy(r.val)
              THEN /\ k_stdout' = k_stdout \o r.out
                                     \o <<"Failed to convert {log_file_path} to KML.">>
                   /\ k_ret' = Return(False)
                   /\ k_pc' = "done"
              ELSE /\ k_stdout' = k_stdout \o r.out
                   /\ k_pc' = "last"
                   /\ UNCHANGED k_ret
    /\ UNCHANGED <<k_file, k_env, content>>
    /\ UNCHANGED scriptVars
    /\ UNCHANGED codecVars

\* Lines 91-97: convert the last line alone, then return
ConvertLastLine ==
    /\ k_pc = "last"
    /\ LET r == _convert_communication_log_to_kml(<<content.lines[Len(content.lines)]>>,
                     Prefix \o <<"_last_line">>, k_env, k_env.save[2])
       IN  /\ result' = r.val
           /\ k_saved' = k_saved \o r.saved
           /\ IF ~Truthy(r.val)
              THEN /\ k_stdout' = k_stdout \o r.out
                                     \o <<"Failed to convert {log_file_path} to KML.">>
                   /\ k_ret' = Return(False)
              ELSE /\ k_stdout' = k_stdout \o r.out
                   /\ k_ret' = Return(True)
    /\ k_pc' = "done"
    /\ UNCHANGED <<k_file, k_env, content>>
    /\ UNCHANGED scriptVars
    /\ UNCHANGED codecVars

(***************************************************************************)
(* The script                                                              *)
(***************************************************************************)
ScriptStart ==
    /\ pc = "load"
    /\ exc = ""
    /\ seq_num = 0
    /\ ftp_payload = Unbound
    /\ read_done = Unbound
    /\ response_payload = Unbound
    /\ file_data = Unbound
    /\ offset = Unbound
    /\ file_size = Unbound
    /\ response = Unbound
    /\ sent = <<>>
    /\ stdout = <<>>

Init ==
    /\ ScriptStart
    /\ remote \in [open : OpenReplies, reads : SeqsUpTo(ReadReplies, MaxReads)]
    /\ CodecIdle
    /\ KmlIdle

\* Lines 1-192: imports, constants, class and function definitions.  The
\* return annotation of receive_ftp_message (line 164) names Tuple, which
\* nothing imports: an interpreter that evaluates annotations at definition
\* time raises NameError there, one that defers them defines the function.
Load ==
    /\ pc = "load"
    /\ \E annotations \in {"eager", "deferred"} :
          IF annotations = "eager"
          THEN pc' = "aborted" /\ exc' = "NameError"
          ELSE pc' = "connect" /\ exc' = exc
    /\ UNCHANGED <<seq_num, ftp_payload, read_done, response_payload, file_data,
                   offset, file_size, response, sent, stdout, remote>>
    /\ UNCHANGED codecVars
    /\ UNCHANGED kmlVars

\* Lines 195-201: connect and wait for the heartbeat
Connect ==
    /\ pc = "connect"
    /\ stdout' = stdout \o <<"heartbeat received", "CONNECTED...">>
    /\ pc' = "open"
    /\ UNCHANGED <<exc, seq_num, ftp_payload, read_done, response_payload, file_data,
                   offset, file_size, response, sent, remote>>
    /\ UNCHANGED codecVars
    /\ UNCHANGED kmlVars

\* a plausible slip: the frame is handed to the transport twice
send_ftp_command_twice(self, log) == Append(Append(log, to_bytes(self)), to_bytes(self))

\* send_ftp_command: the frame's bytes handed to file_transfer_protocol_send
send_ftp_command(self, log) == Append(log, to_bytes(self))

\* a plausible slip: the counter is advanced as soon as it has been stamped
SendOpen_bump ==
    /\ pc = "open"
    /\ LET m == FTPMessage(seq_num, 0, OPEN_FILE_RO, Len(FILE_PATH.b), NONE, Wide(0, 0), FILE_PATH)
       IN  IF m.raised # ""
           THEN /\ pc' = "aborted"
                /\ exc' = m.raised
                /\ UNCHANGED <<ftp_payload, sent, seq_num>>
           ELSE /\ ftp_payload' = m.val
                /\ sent' = send_ftp_command(m.val, sent)
                /\ seq_num' = seq_num + 1
                /\ pc' = "open_wait"
                /\ exc' = exc
    /\ UNCHANGED <<read_done, response_payload, file_data, offset, file_size,
                   response, stdout, remote>>
    /\ UNCHANGED codecVars
    /\ UNCHANGED kmlVars

\* a plausible slip: the open request built with the opcode of the read loop
SendOpen_readop ==
    /\ pc = "open"
    /\ LET m == FTPMessage(seq_num, 0, READ_FILE, Len(FILE_PATH.b), NONE, Wide(0, 0), FILE_PATH)
       IN  IF m.raised # ""
           THEN /\ pc' = "aborted"
                /\ exc' = m.raised
                /\ UNCHANGED <<ftp_payload, sent>>
           ELSE /\ ftp_payload' = m.val
                /\ sent' = send_ftp_command(m.val, sent)
                /\ pc' = "open_wait"
                /\ exc' = exc
    /\ UNCHANGED <<seq_num, read_done, response_payload, file_data, offset, file_size,
                   response, stdout, remote>>
    /\ UNCHANGED codecVars
    /\ UNCHANGED kmlVars

\* Lines 203-214: build the open request and send it
SendOpen ==
    /\ pc = "open"
    /\ LET m == FTPMessage(seq_num, 0, OPEN_FILE_RO, Len(FILE_PATH.b), NONE, Wide(0, 0), FILE_PATH)
       IN  IF m.raised # ""
           THEN /\ pc' = "aborted"
                /\ exc' = m.raised
                /\ UNCHANGED <<ftp_payload, sent>>
           ELSE /\ ftp_payload' = m.val
                /\ sent' = send_ftp_command(m.val, sent)
                /\ pc' = "open_wait"
                /\ exc' = exc
    /\ UNCHANGED <<seq_num, read_done, response_payload, file_data, offset, file_size,
                   response, stdout, remote>>
    /\ UNCHANGED codecVars
    /\ UNCHANGED kmlVars

\* a plausible slip: a failed open step goes back to sending the request
RecvOpen_retry ==
    /\ pc = "open_wait"
    /\ IF remote.open.kind = "raise"
       THEN /\ pc' = "aborted"
            /\ exc' = "OSError"
            /\ UNCHANGED <<response, stdout, read_done, response_payload>>
       ELSE /\ response' = recv_match(remote.open, seq_num)
            /\ LET r == receive_ftp_message(seq_num, response', response_payload)
               IN  /\ stdout' = stdout \o r.out
                   /\ IF r.raised # ""
                      THEN /\ pc' = "aborted"
                           /\ exc' = r.raised
                           /\ UNCHANGED <<read_done, response_payload>>
                      ELSE /\ read_done' = r.val[1]
                           /\ response_payload' = r.val[2]
                           /\ exc' = exc
                           /\ pc' = IF r.val[1] = True THEN "line223" ELSE "open"
    /\ UNCHANGED <<seq_num, ftp_payload, file_data, offset, file_size, sent, remote>>
    /\ UNCHANGED codecVars
    /\ UNCHANGED kmlVars

\* Lines 216-220: wait for the answer to the open request; leave on failure.
\* An exception raised inside receive_ftp_message (by recv_match, or by the
\* function's own code) is not caught: the assignment of line 216 does not
\* happen and the script ends there.
RecvOpen ==
    /\ pc = "open_wait"
    /\ IF remote.open.kind = "raise"
       THEN /\ pc' = "aborted"
            /\ exc' = "OSError"
            /\ UNCHANGED <<response, stdout, read_done, response_payload>>
       ELSE /\ response' = recv_match(remote.open, seq_num)
            /\ LET r == receive_ftp_message(seq_num, response', response_payload)
               IN  /\ stdout' = stdout \o r.out
                   /\ IF r.raised # ""
                      THEN /\ pc' = "aborted"
                           /\ exc' = r.raised
                           /\ UNCHANGED <<read_done, response_payload>>
                      ELSE /\ read_done' = r.val[1]
                           /\ response_payload' = r.val[2]
                           /\ exc' = exc
                           /\ pc' = IF r.val[1] = True THEN "line223" ELSE "exited"
    /\ UNCHANGED <<seq_num, ftp_payload, file_data, offset, file_size, sent, remote>>
    /\ UNCHANGED codecVars
    /\ UNCHANGED kmlVars

Next == Load \/ Connect \/ SendOpen \/ RecvOpen

Spec == Init /\ [][Next]_vars

CodecInit ==
    /\ ScriptStart
    /\ remote = [open |-> NoReply, reads |-> <<>>]
    /\ CodecIdle
    /\ KmlIdle

CodecNext == Construct \/ Encode \/ Receive \/ Decode \/ Classify

CodecSpec == CodecInit /\ [][CodecNext]_vars

\* a call convert_communication_log_to_kml(log_file_path, "output", cwd)
KmlInit ==
    /\ ScriptStart
    /\ remote = [open |-> NoReply, reads |-> <<>>]
    /\ CodecIdle
    /\ k_pc = "open"
    /\ k_file \in SampleFiles
    /\ k_env \in SampleEnvs
    /\ content = Unbound
    /\ result = Unbound
    /\ k_saved = <<>>
    /\ k_stdout = <<>>
    /\ k_ret = Unbound

KmlNext == ReadLog \/ ConvertWhole \/ ConvertLastLine

KmlSpec == KmlInit /\ [][KmlNext]_vars

(***************************************************************************)
(* Vocabulary of the properties                                            *)
(***************************************************************************)
\* the script has stopped: sys.exit() of line 220, an uncaught exception, or
\* the end of the file (line 267)
Terminated == pc \in {"exited", "aborted", "end"}

\* the operation completed: the script ran to its last line
Closed == pc = "end"

Printed(line) == \E i \in 1 .. Len(stdout) : stdout[i] = line

\* the operation failed in the way the script reports failures: the cause
\* printed by receive_ftp_message, then the sys.exit() of line 220
Failed(cause) == pc = "exited" /\ Printed(cause)

Timeout == "ERROR: NO RESPONSE RECEIVED"

SequenceMismatch == "ERROR: Sequence number mismatch"

RemoteError == "ERROR CODE: {error}, ERROR MESSAGE: {error.name}"

\* recv_match returned a frame in answer to the open request
OpenAnswered == response # Unbound /\ response # None

IsAck(r) == r.kind = "frame" /\ r.opcode = 128

IsNak(r, codes) ==
    r.kind = "frame" /\ r.opcode = 129 /\ r.seq_delta = 1 /\ Len(r.data) >= 1
      /\ r.data[1] \in codes

\* the answer to the open request is an ACK of the expected sequence that
\* carries the 4-byte file size
OpenAcked ==
    OpenAnswered /\ IsAck(remote.open) /\ remote.open.seq_delta = 1
      /\ remote.open.size = 4

IsChunk(r) == IsAck(r) /\ r.seq_delta = 1 /\ Len(r.data) >= 1

RECURSIVE Chunks(_)
\* the bytes carried by the ACK answers among reads, in order
Chunks(reads) ==
    IF reads = <<>> THEN <<>>
    ELSE (IF IsAck(Head(reads)) /\ Head(reads).seq_delta = 1 THEN Head(reads).data ELSE <<>>)
           \o Chunks(Tail(reads))

\* the remote answers the read requests with chunks, then with `last`
ChunksThen(reads, last) ==
    /\ Len(reads) >= 1
    /\ \A i \in 1 .. Len(reads) - 1 : IsChunk(reads[i])
    /\ last = reads[Len(reads)]

\* requests sent so far that carry opcode op
SentWith(op) == {i \in 1 .. Len(sent) : sent[i].b[4] = op}

\* Lines 223-267 (the read loop and the terminate request) are reached only
\* when receive_ftp_message returns True for the open request.  It never
\* does: with an answer it raises at line 177, without one it returns False.
LoopUnreachable == pc # "line223"

\* Lines 226-228 create file_data, offset and file_size; being behind line
\* 223, they never run: the three names stay unbound in every state.
ReadStateAbsent == file_data = Unbound /\ offset = Unbound /\ file_size = Unbound

(***************************************************************************)
(* Properties of the read operation                                        *)
(***************************************************************************)
\* C1 (reassembly): in every run in which the open request is acknowledged
\* with file_size and the remote answers the read requests with ACK chunks
\* whose sizes sum to file_size and then with end of data, the script ends
\* Closed with file_data equal to the chunks in order.
C1_Reassembly ==
    ( /\ Terminated
      /\ OpenAcked
      /\ ChunksThen(remote.reads, Reply(1, 3, 129, 5, <<6>>))
      /\ remote.open.data = pack_I(Wide(0, Len(Chunks(remote.reads)))) )
    => (Closed /\ file_data = Bytes(Chunks(remote.reads)))

\* C2 (EOF termination): a run against a remote that acknowledges the open
\* request and answers a read request with NAK(Eof) ends Closed, never
\* failed.
C2_EofTermination ==
    ( /\ Terminated
      /\ OpenAcked
      /\ \E r \in ReadReplies : IsNak(r, {6}) /\ ChunksThen(remote.reads, r) )
    => Closed

\* C3 (other NAKs fail): a run against a remote that acknowledges the open
\* request and answers a read request with a NAK other than Eof ends Failed
\* with the remote error as the cause and with file_data holding the bytes
\* of the chunks accepted before it.
C3_OtherNakFails ==
    ( /\ Terminated
      /\ OpenAcked
      /\ \E r \in ReadReplies :
            IsNak(r, (0 .. 10) \ {6}) /\ ChunksThen(remote.reads, r) )
    => (Failed(RemoteError) /\ file_data = Bytes(Chunks(remote.reads)))

\* C4 (timeout on a chunk request): a run against a remote that acknowledges
\* the open request and gives no answer to a read request ends Failed with
\* cause Timeout and with file_data holding the bytes of the chunks accepted
\* before it.
C4_ChunkTimeout ==
    ( /\ Terminated
      /\ OpenAcked
      /\ ChunksThen(remote.reads, NoReply) )
    => (Failed(Timeout) /\ file_data = Bytes(Chunks(remote.reads)))

\* C5 (sequence law): every request sent carries a sequence in 0..65535; an
\* ACK answering a request of sequence q is accepted exactly when its
\* sequence is (q + 1) mod 65536, and once it is accepted the counter is
\* (s + 1) mod 65536 for the response's sequence s.
C5_SequenceLaw ==
    /\ \A i \in 1 .. Len(sent) : sent[i].b[1] + 256 * sent[i].b[2] \in 0 .. 65535
    /\ (Terminated /\ OpenAnswered /\ IsAck(remote.open) /\ remote.open.size = 4)
         => ( (read_done = True) <=> (remote.open.seq_delta = 1) )
    /\ (read_done = True)
         => seq_num = (response.payload.b[1] + 256 * response.payload.b[2] + 1) % 65536

\* C6 (sequence mismatch): a response whose sequence is not the request's
\* plus one leads to Failed with cause SequenceMismatch, and none of its
\* payload bytes reach file_data.
C6_MismatchFails ==
    (Terminated /\ OpenAnswered /\ remote.open.seq_delta # 1)
    => (Failed(SequenceMismatch) /\ file_data = Unbound)

\* C7 (open-step failure): when the open request is answered by a NAK, the
\* outcome is Failed with the remote error as the cause, no read state
\* (file_data, offset, file_size) is created, and neither a ReadFile nor a
\* TerminateSession request is sent.
C7_OpenNakFails ==
    (Terminated /\ OpenAnswered /\ IsNak(remote.open, 0 .. 10))
    => ( /\ Failed(RemoteError)
         /\ file_data = Unbound /\ offset = Unbound /\ file_size = Unbound
         /\ SentWith(5) = {} /\ SentWith(1) = {} )

(***************************************************************************)
(* Properties of the codec                                                 *)
(***************************************************************************)
SameFrame(f, g) ==
    /\ f.seq_num = g.seq_num
    /\ f.session = g.session
    /\ f.opcode = g.opcode
    /\ f.size = g.size
    /\ f.req_opcode = g.req_opcode
    /\ f.offset = g.offset
    /\ f.data.b = g.data.b

\* C8 (round trip): for every frame f the constructor accepts,
\* from_bytes(to_bytes(f)) returns a frame with the same sequence, session,
\* opcode, size, req_opcode, offset and payload.
C8_RoundTrip ==
    (h_step = "decoded" /\ h_dec.of = "encoded")
    => (h_dec.res.raised = "" /\ SameFrame(h_dec.res.val, h_msg.val))

\* C9 (short buffers): from_bytes fails on every buffer shorter than 12
\* bytes and on every buffer shorter than 12 + size, size being its byte 4;
\* a frame it returns never holds fewer payload bytes than its size.
C9_DecodeRejectsShort ==
    h_step = "decoded"
    => /\ (Len(h_buf.b) < 12 \/ Len(h_buf.b) < 12 + h_buf.b[5])
            => h_dec.res.raised # ""
       /\ h_dec.res.raised = ""
            => Len(h_dec.res.val.data.b) >= h_dec.res.val.size

\* C10 (unknown opcodes): from_bytes fails on every buffer whose byte 3
\* (opcode) or byte 5 (req_opcode) is not one of 0..15, 128, 129; no frame
\* is returned for it.
C10_DecodeRejectsUnknownOpcode ==
    ( /\ h_step = "decoded"
      /\ \/ Len(h_buf.b) >= 4 /\ h_buf.b[4] \notin ((0 .. 15) \cup {128, 129})
         \/ Len(h_buf.b) >= 6 /\ h_buf.b[6] \notin ((0 .. 15) \cup {128, 129}) )
    => (h_dec.res.raised # "" /\ h_dec.res.val = None)

\* a full-size buffer of opcode byte 200 was decoded, and the decoder raised
C10_Witness ==
    /\ h_step = "decoded"
    /\ h_buf.py = "bytes"
    /\ Len(h_buf.b) = FRAME_SIZE
    /\ h_buf.b[4] = 200
    /\ h_dec.res.raised = "ValueError"


\* the five bounds of the constructor hold of frame f
InBounds(f) ==
    /\ f.seq_num <= 65535
    /\ f.session <= 255
    /\ f.size <= 255
    /\ f.offset[1] <= 65535
    /\ Len(f.data.b) <= 239

\* C11 (eager validation): the constructor fails, before anything is encoded,
\* whenever sequence > 0xFFFF, session > 0xFF, size > 0xFF,
\* offset > 0xFFFFFFFF or the payload is longer than 239 bytes; every frame
\* that exists, constructed or decoded, satisfies the five bounds.
C11_EagerValidation ==
    /\ (h_step = "constructed" /\ ~InBounds(h_args))
         => (h_msg.raised # "" /\ h_msg.val = None /\ h_buf = None)
    /\ (h_msg # None /\ h_msg.raised = "") => InBounds(h_msg.val)
    /\ (h_step = "decoded" /\ h_dec.res.raised = "") => InBounds(h_dec.res.val)

\* a 240-byte payload, every other argument valid, was refused
C11_Witness ==
    /\ h_step = "constructed"
    /\ Len(h_args.data.b) = 240
    /\ h_args.data.py = "bytes"
    /\ h_args.seq_num <= 65535 /\ h_args.session <= 255 /\ h_args.size <= 255
    /\ h_args.offset[1] <= 65535
    /\ h_args.opcode.py = "Opcode" /\ h_args.req_opcode.py = "Opcode"
    /\ h_msg.raised = "ValueError"

\* C12 (encode layout): to_bytes returns exactly 251 bytes: sequence
\* little-endian in bytes 0-1, session in byte 2, opcode in byte 3, size in
\* byte 4, req_opcode in byte 5, bytes 6 and 7 zero, offset little-endian in
\* bytes 8-11, the payload from byte 12 on and zeros after the payload.
C12_EncodeLayout ==
    (h_msg # None /\ h_buf # None)
    => LET b == h_buf.b
           f == h_msg.val
           n == Len(f.data.b)
       IN  /\ Len(b) = 251
           /\ b[1] = f.seq_num % 256 /\ b[2] = f.seq_num \div 256
           /\ b[3] = f.session
           /\ b[4] = f.opcode.v
           /\ b[5] = f.size
           /\ b[6] = f.req_opcode.v
           /\ b[7] = 0 /\ b[8] = 0
           /\ \A i \in 9 .. 12 : b[i] \in 0 .. 255
           /\ b[9] + 256 * b[10] = f.offset[2]
           /\ b[11] + 256 * b[12] = f.offset[1]
           /\ \A i \in 1 .. n : b[12 + i] = f.data.b[i]
           /\ \A i \in 13 + n .. 251 : b[i] = 0

\* a frame of sequence 65535, offset 100 and a 2-byte payload was encoded
C12_Witness ==
    /\ h_step = "encoded"
    /\ h_msg.val.seq_num = 65535
    /\ h_msg.val.offset = Wide(0, 100)
    /\ Len(h_msg.val.data.b) = 2
    /\ Len(h_buf.b) = 251


\* the answer the remote gives at end of file
NakEof == Reply(1, 3, 129, 5, <<6>>)

\* C13 (terminate step): a run on the completion path (the open request
\* acknowledged, the chunks served, then end of data) ends Closed with
\* exactly one TerminateSession request sent, as the last frame, carrying
\* the session id of the open response.
C13_TerminateStep ==
    ( /\ Terminated
      /\ OpenAcked
      /\ ChunksThen(remote.reads, NakEof)
      /\ remote.open.data = pack_I(Wide(0, Len(Chunks(remote.reads)))) )
    => ( /\ Closed
         /\ SentWith(1) = {Len(sent)}
         /\ sent[Len(sent)].b[3] = remote.open.session )

\* requests sent whose wait for a response has not ended
Outstanding == Len(sent) - (IF pc = "open_wait" \/ sent = <<>> THEN 0 ELSE 1)

\* C14 (one outstanding request): in every reachable state at most one
\* request is awaiting its response.
C14_OneOutstanding == Outstanding \in {0, 1}

\* the open request has been sent and its response is awaited
C14_Witness == pc = "open_wait" /\ Len(sent) = 1 /\ Outstanding = 1 /\ response = Unbound

\* C15 (no internal retry): once a request has timed out, the script has
\* left, and the only request ever sent is the one open request.
C15_NoRetry ==
    Printed(Timeout) => (pc = "exited" /\ Len(sent) = 1 /\ SentWith(4) = {1})

\* the open request timed out
C15_Witness == Printed(Timeout) /\ response = None /\ pc = "exited" /\ Len(sent) = 1

\* C16 (alternate completion guard): a run in which the open request is
\* acknowledged with file_size and the remote serves chunks whose sizes sum
\* to file_size, without any end-of-data answer, ends Closed with one
\* ReadFile request sent per chunk and none after.
C16_OffsetGuard ==
    ( /\ Terminated
      /\ OpenAcked
      /\ \A i \in 1 .. Len(remote.reads) : IsChunk(remote.reads[i])
      /\ remote.open.data = pack_I(Wide(0, Len(Chunks(remote.reads)))) )
    => (Closed /\ Cardinality(SentWith(5)) = Len(remote.reads))

\* C17 (transport exceptions count as timeouts): a run in which the
\* transport raises while the response to a request is awaited ends Failed
\* with cause Timeout.
C17_TransportErrorIsTimeout ==
    (Terminated /\ Len(sent) >= 1 /\ remote.open.kind = "raise") => Failed(Timeout)

\* C19 (nested errno): when a NAK carries FailErrno (2), the failure
\* reported is the remote error together with the OS error number of
\* payload byte 1 (13 here).
C19_NestedErrno ==
    ( /\ Terminated
      /\ OpenAnswered
      /\ IsNak(remote.open, {2})
      /\ Len(remote.open.data) >= 2 /\ remote.open.data[2] = 13 )
    => ( /\ Failed(RemoteError)
         /\ Printed("ERROR: Command failed with file-system error number 13") )

\* C18 (unknown NAK error codes): NakErrorCode fails on every byte outside
\* 0..10 and returns nothing for it; a byte inside 0..10 yields the member of
\* that value, so that only 6 is EndOfFile.
C18_UnknownErrorCode ==
    h_step = "classified"
    => /\ h_args.code \notin 0 .. 10
            => (h_dec.res.raised # "" /\ h_dec.res.val = None)
       /\ h_args.code \in 0 .. 10
            => (h_dec.res.raised = "" /\ h_dec.res.val.v = h_args.code)

\* the byte 42 was classified, and the classifier raised
C18_Witness ==
    h_step = "classified" /\ h_args.code = 42 /\ h_dec.res.raised = "ValueError"

\* the size field of f is the number of payload bytes f holds, within 0..239
SizeOk(f) == f.size = Len(f.data.b) /\ f.size \in 0 .. 239

\* C20 (size invariant): every frame constructed or decoded has size equal
\* to the length of its payload, within 0..239.
C20_SizeInvariant ==
    /\ (h_msg # None /\ h_msg.raised = "") => SizeOk(h_msg.val)
    /\ (h_step = "decoded" /\ h_dec.res.raised = "") => SizeOk(h_dec.res.val)


(***************************************************************************)
(* Properties of the conversion of a communications log                    *)
(***************************************************************************)
\* the conversion of a line fails: its counts of latitudes and longitudes
\* differ, or one of its locations cannot be created
LineFails(line, env) ==
    \/ Len(findall("latitude", line)) # Len(findall("longitude", line))
    \/ LineLocations(line, env).failed

\* C21 (True only on success): when convert_communication_log_to_kml returns
\* True, both KML files were saved; when a line of the log fails to convert
\* (unequal counts of latitudes and longitudes, or a location that cannot be
\* created), the function returns False.
C21_TrueOnlyOnSuccess ==
    /\ (k_pc = "done" /\ k_ret = Return(True))
         => (Len(k_saved) = 2 /\ k_saved[1].ok /\ k_saved[2].ok)
    /\ (k_pc = "done" /\ content # Unbound
          /\ \E i \in 1 .. Len(content.lines) : LineFails(content.lines[i], k_env))
         => k_ret = Return(False)

(***************************************************************************)
(* Further properties of the read operation                                *)
(***************************************************************************)
\* the sequence stamped on the i-th request sent
Stamp(i) == sent[i].b[1] + 256 * sent[i].b[2]

OffsetOf(i) ==
    Wide(sent[i].b[11] + 256 * sent[i].b[12], sent[i].b[9] + 256 * sent[i].b[10])

\* the i-th request sent is a ReadFile request of the shape the read loop
\* gives it: the session of the open ACK, size 239, req_opcode None, no
\* payload
ReadShape(i) ==
    /\ sent[i].b[4] = 5
    /\ sent[i].b[3] = remote.open.session
    /\ sent[i].b[5] = 239
    /\ sent[i].b[6] = 0
    /\ \A j \in 13 .. Len(sent[i].b) : sent[i].b[j] = 0

\* C23 (shape of read requests): in a run in which the open request is
\* acknowledged and the remote has a chunk of n > 0 bytes to serve, ReadFile
\* requests are sent; each has the session of the open ACK, size 239,
\* req_opcode None and an empty payload; the first has offset 0; a request
\* that follows one answered by an ACK of n bytes has an offset larger by n;
\* and file_data holds the n bytes of the first chunk.
C23_ReadRequestShape ==
    ( /\ Terminated
      /\ OpenAcked
      /\ Len(remote.reads) >= 1 /\ IsChunk(remote.reads[1]) )
    => ( /\ SentWith(5) # {}
         /\ \A i \in SentWith(5) : ReadShape(i)
         /\ 2 \in SentWith(5) /\ OffsetOf(2) = Wide(0, 0)
         /\ \A i \in SentWith(5) :
               (i + 1 \in SentWith(5) /\ i - 1 <= Len(remote.reads)
                  /\ IsChunk(remote.reads[i - 1]))
               => OffsetOf(i + 1) = Wide(0, OffsetOf(i)[2] + Len(remote.reads[i - 1].data))
         /\ file_data # Unbound
         /\ Len(file_data.b) >= Len(remote.reads[1].data) )

\* C24 (request sequences strictly increase): the requests sent carry
\* strictly increasing sequences, so no two share one; and in a run in which
\* the open exchange is accepted, the request that follows it is sent with
\* the open request's sequence plus 2.
C24_SequencesIncrease ==
    /\ \A i, j \in 1 .. Len(sent) : i < j => Stamp(i) < Stamp(j)
    /\ (Terminated /\ OpenAcked) => (Len(sent) >= 2 /\ Stamp(2) = Stamp(1) + 2)

\* C26 (termination): a run against a remote that answers the open request
\* with a frame or not at all ends Closed or Failed; it does not end in any
\* other way.
C26_EndsClosedOrFailed ==
    (Terminated /\ Len(sent) >= 1 /\ remote.open.kind \in {"none", "frame"})
    => (Closed \/ Failed(Timeout) \/ Failed(SequenceMismatch) \/ Failed(RemoteError))

\* C27 (a read starts only on a well-formed open ACK): a ReadFile request has
\* been sent only if the open request was answered by an ACK of the expected
\* sequence with a 4-byte payload; after no answer or any other answer, none
\* is sent.
C27_ReadOnlyAfterOpenAck ==
    SentWith(5) # {} => (OpenAcked /\ Len(remote.open.data) = 4)

\* the open request was answered by an ACK of the expected sequence whose
\* payload is empty; the run is over and no ReadFile request was sent
C27_Witness ==
    /\ Terminated
    /\ OpenAnswered
    /\ IsAck(remote.open) /\ remote.open.seq_delta = 1 /\ Len(remote.open.data) = 0
    /\ SentWith(4) = {1}
    /\ SentWith(5) = {}
====
